---- MODULE Spec2Model ----
(***************************************************************************)
(* project_taskjuggler (work.py): the derived fields of project.work       *)
(* (calc_remain_hours, get_resources, get_dependencies, get_tasks) and the *)
(* export button of taskjuggler.project.                                   *)
(*                                                                         *)
(* Hours are floats in the source; the model counts them in whole hours,   *)
(* which keeps every comparison and sum of the source exact.               *)
(***************************************************************************)
EXTENDS Integers, Sequences, FiniteSets, TLC

\* ------------------------------------------------------------ bounds
NumWorks == 4
NumEmployees == 3
NumTrackers == 2
MaxHours == 10
MaxEdges == 3
MaxTaskEdges == 1
\* The interpreter's recursion limit (1000 by default), scaled down: deeper
\* than any walk of an acyclic graph over Works.
RecursionLimit == 6
NumProjects == 3

\* Python's None, for a field that is not set.  Ids and hours are >= 0.
None == -1

Works == 1..NumWorks
Employees == 1..NumEmployees
Trackers == 1..NumTrackers
\* taskjuggler.project records
TaskJugglers == 1..NumProjects
\* project.work.state: the two states the source tests, and any other one.
States == {"opened", "done", "other"}

VARIABLES
    \* project.work records: one field value per work id
    predecessors, parent, state, effort, hours, tracker,
    \* company.employee records
    trackers,
    \* the method call in progress
    pc, method, self, result,
    \* the call stack of the predecessor walk
    stack,
    \* taskjuggler.project records, as saved
    exported_date, exported_msg,
    \* export: its argument, the place of its loop (the k-th project, the step
    \* to do next), its locals `result` and `error`, the attribute it sets on
    \* the instance, and the message handed to its caller
    projects, k, step, output, err, expored_msg, message,
    \* the world around export: the clock, what each tj3 run did, the
    \* server's own stderr, and the steps done so far
    now, tj3, console, log

walkvars == <<pc, method, self, result, stack>>
exportvars == <<exported_date, exported_msg, projects, k, step, output, err,
                expored_msg, message, now, tj3, console, log>>

vars == <<predecessors, parent, state, effort, hours, tracker, trackers,
          walkvars, exportvars>>

\* ---------------------------------------------------------- helpers
\* The elements of a set of ids as a list in id order (the order in which a
\* search or a relation field hands the records out).
ById(S) ==
    [i \in 1..Cardinality(S) |->
        CHOOSE x \in S : Cardinality({y \in S : y < x}) = i - 1]

Range(s) == {s[i] : i \in 1..Len(s)}

\* Python's `x or d` on a number field: d when x is None or 0.
Or(x, d) == IF x = None \/ x = 0 THEN d ELSE x

\* One field of one record set, the others left at their default.
OnlySelf(w, v, d) == [x \in Works |-> IF x = w THEN v ELSE d]

\* ------------------------------------------------ calc_remain_hours
\* A mutant of calc_remain_hours: `<` for `<=`.
calc_remain_hours_lt(w) ==
    LET e == Or(effort[w], 4)
        h == Or(hours[w], 0)
        res == IF e - h < 0 /\ state[w] = "opened" THEN 4 + (h - e) ELSE e - h
    IN IF state[w] = "done" THEN 0 ELSE res

\* A mutant of calc_remain_hours: a done work is not forced to 0.
calc_remain_hours_nodone(w) ==
    LET e == Or(effort[w], 4)
        h == Or(hours[w], 0)
    IN IF e - h <= 0 /\ state[w] = "opened" THEN 4 + (h - e) ELSE e - h

calc_remain_hours(w) ==
    LET e == Or(effort[w], 4)
        h == Or(hours[w], 0)
        res == IF e - h <= 0 /\ state[w] = "opened" THEN 4 + (h - e) ELSE e - h
    IN IF state[w] = "done" THEN 0 ELSE res

\* ---------------------------------------------------- get_resources
\* Employee.search([])
EmployeeSearch == ById(Employees)

\* A mutant of get_resources: any employee with a tracker.
get_resources_any(w) ==
    SelectSeq(EmployeeSearch, LAMBDA x : trackers[x] # {})

get_resources(w) ==
    SelectSeq(EmployeeSearch, LAMBDA x : tracker[w] \in trackers[x])

\* ------------------------------------- get_dependencies, get_tasks
\* The frame of one call: the work it is called on, the records its loop has
\* still to visit (the first one is the one being visited), and its local
\* list `dependencies`.
\* A mutant of Frame: a walk that keeps a visited set, and leaves out of its
\* loop the works whose call is still running.
Frame_visited(fn, w, todo) ==
    [fn |-> fn, task |-> w,
     todo |-> SelectSeq(todo, LAMBDA x :
                  x \notin {w} \cup {stack[i].task : i \in 1..Len(stack)}),
     dependencies |-> <<>>]

Frame(fn, w, todo) ==
    [fn |-> fn, task |-> w, todo |-> todo, dependencies |-> <<>>]

\* self.predecessors, as the list the for loop iterates.
Predecessors(w) == ById(predecessors[w])

\* A mutant of search: the clause on the state is lost.
search_any_state(w) == ById({t \in Works : parent[t] = w})

\* self.search([('parent', '=', self.id), ('state', '=', 'opened')])
search(w) == ById({t \in Works : parent[t] = w /\ state[t] = "opened"})

Top == stack[Len(stack)]

\* A mutant of Appended: the predecessor itself is never appended.
Appended_none(f) == <<>>

\* dependencies.append(task), in the loop of get_dependencies only.
Appended(f) ==
    IF f.fn = "get_dependencies" THEN <<Head(f.todo)>> ELSE <<>>

\* A mutant of Returned: get_dependencies removes the duplicates itself.
Returned_dedup(f) ==
    IF f.fn = "get_dependencies" THEN ById(Range(f.dependencies))
    ELSE ById(Range(search(f.task) \o f.dependencies))

\* What a finished frame returns: `dependencies`, or for get_tasks
\* list(set([task.id for task in tasks + dependencies])).
Returned(f) ==
    IF f.fn = "get_dependencies" THEN f.dependencies
    ELSE ById(Range(search(f.task) \o f.dependencies))

\* ------------------------------------------------------ initial states
NoPredecessors == [w \in Works |-> {}]
NoParent == [w \in Works |-> None]
AllOpened == [w \in Works |-> "opened"]
Unset == [w \in Works |-> None]
NoTrackers == [e \in Employees |-> {}]

\* A text field that is not set, and the texts tj3 may write.
NoText == "None"
Stdout == {"", "out"}
Stderr == {"", "err"}

\* The tj3 run of a project that was not run.
NotRun == [ran |-> FALSE, stdout |-> "", stderr |-> "", status |-> 0, at |-> 0]

\* The steps of one turn of the loop of export, in order.
Steps == <<"render", "write", "call", "store">>

\* The projects as they were saved before: an earlier date, no message.
DateBefore == [p \in TaskJugglers |-> 0]
MsgBefore == [p \in TaskJugglers |-> NoText]
Saved == exported_date = DateBefore /\ exported_msg = MsgBefore

\* No export has been started.
ExportNotStarted ==
    /\ Saved
    /\ k = 0 /\ step = "none"
    /\ output = NoText /\ err = NoText /\ expored_msg = NoText
    /\ message = NoText
    /\ now = 1 /\ tj3 = [p \in TaskJugglers |-> NotRun]
    /\ console = <<>> /\ log = <<>>

NoExport == ExportNotStarted /\ projects = <<>>

NotCalled == pc = "idle" /\ method = "none" /\ result = <<>> /\ stack = <<>>

Idle == NotCalled /\ NoExport

\* A work with any effort, hours and state, before calc_remain_hours.
InitCalc ==
    /\ self \in Works
    /\ \E e \in {None} \cup (0..MaxHours) : effort = OnlySelf(self, e, None)
    /\ \E h \in {None} \cup (0..MaxHours) : hours = OnlySelf(self, h, None)
    /\ \E s \in States : state = OnlySelf(self, s, "opened")
    /\ predecessors = NoPredecessors /\ parent = NoParent /\ tracker = Unset
    /\ trackers = NoTrackers
    /\ Idle

\* A work with any tracker and employees with any trackers, before
\* get_resources.
InitRes ==
    /\ self \in Works
    /\ \E t \in {None} \cup Trackers : tracker = OnlySelf(self, t, None)
    /\ trackers \in [Employees -> SUBSET Trackers]
    /\ predecessors = NoPredecessors /\ parent = NoParent /\ state = AllOpened
    /\ effort = Unset /\ hours = Unset
    /\ Idle

\* The predecessor graphs with at most n links.
RECURSIVE SubsetsUpTo(_, _)
SubsetsUpTo(S, n) ==
    IF n = 0 \/ S = {} THEN {{}}
    ELSE LET x == CHOOSE y \in S : TRUE
         IN SubsetsUpTo(S \ {x}, n)
            \cup {T \cup {x} : T \in SubsetsUpTo(S \ {x}, n - 1)}

Graphs(n) ==
    {[w \in Works |-> {p \in Works : <<w, p>> \in E}] :
        E \in SubsetsUpTo(Works \X Works, n)}

\* The diamond: A depends on B and C, and both depend on D.
\* A, B, C and D are the works 1, 2, 3 and 4.
Diamond ==
    [w \in Works |-> CASE w = 1 -> {2, 3}
                      [] w \in {2, 3} -> {4}
                      [] OTHER -> {}]

\* Works linked in any way, cycles included, before get_dependencies.
InitDeps ==
    /\ self \in Works
    /\ predecessors \in Graphs(MaxEdges) \cup {Diamond}
    /\ parent = NoParent /\ state = AllOpened
    /\ effort = Unset /\ hours = Unset /\ tracker = Unset
    /\ trackers = NoTrackers
    /\ Idle

\* A work, the other works each a child of it or not and opened or done,
\* linked in any way, before get_tasks.
InitTasks ==
    /\ self \in Works
    /\ predecessors \in Graphs(MaxTaskEdges) \cup {Diamond}
    /\ parent \in [Works -> {None, self}] /\ parent[self] = None
    /\ state \in [Works -> {"opened", "done"}] /\ state[self] = "opened"
    /\ effort = Unset /\ hours = Unset /\ tracker = Unset
    /\ trackers = NoTrackers
    /\ Idle

\* The lists of distinct records of S.
RECURSIVE Selections(_)
Selections(S) ==
    {<<>>} \cup UNION {{<<x>> \o t : t \in Selections(S \ {x})} : x \in S}

\* Any selection of projects, before the export button is pressed.
InitExport ==
    /\ self = 1
    /\ predecessors = NoPredecessors /\ parent = NoParent /\ state = AllOpened
    /\ effort = Unset /\ hours = Unset /\ tracker = Unset
    /\ trackers = NoTrackers
    /\ NotCalled
    /\ ExportNotStarted
    /\ projects \in Selections(TaskJugglers)

\* ------------------------------------------------------------ actions
Records == <<predecessors, parent, state, effort, hours, tracker, trackers>>

CalcRemainHours ==
    /\ pc = "idle"
    /\ pc' = "returned"
    /\ method' = "calc_remain_hours"
    /\ result' = calc_remain_hours(self)
    /\ UNCHANGED <<Records, self, stack, exportvars>>

GetResources ==
    /\ pc = "idle"
    /\ pc' = "returned"
    /\ method' = "get_resources"
    /\ result' = get_resources(self)
    /\ UNCHANGED <<Records, self, stack, exportvars>>

\* w.get_dependencies() is called.
GetDependencies ==
    /\ pc = "idle"
    /\ pc' = "running"
    /\ method' = "get_dependencies"
    /\ stack' = <<Frame("get_dependencies", self, Predecessors(self))>>
    /\ UNCHANGED <<Records, self, result, exportvars>>

\* w.get_tasks() is called.
GetTasks ==
    /\ pc = "idle"
    /\ pc' = "running"
    /\ method' = "get_tasks"
    /\ stack' = <<Frame("get_tasks", self, search(self))>>
    /\ UNCHANGED <<Records, self, result, exportvars>>

\* The loop body: the running call takes the next record of its loop and calls
\* get_dependencies on it.
Descend ==
    /\ pc = "running"
    /\ Top.todo # <<>>
    /\ Len(stack) < RecursionLimit
    /\ stack' = [stack EXCEPT ![Len(stack)].dependencies = @ \o Appended(Top)]
                 \o <<Frame("get_dependencies", Head(Top.todo),
                             Predecessors(Head(Top.todo)))>>
    /\ UNCHANGED <<Records, self, pc, method, result, exportvars>>

\* The same call with the interpreter's stack full: the call raises, and
\* nothing on the way up catches it.
RecursionError ==
    /\ pc = "running"
    /\ Top.todo # <<>>
    /\ Len(stack) >= RecursionLimit
    /\ pc' = "raised"
    /\ stack' = <<>>
    /\ UNCHANGED <<Records, self, method, result, exportvars>>

\* The loop of the running call is over (or there was nothing to loop on):
\* it returns, to its caller's `dependencies +=` or to the outside.
Return ==
    /\ pc = "running"
    /\ Top.todo = <<>>
    /\ IF Len(stack) = 1
       THEN /\ pc' = "returned"
            /\ result' = Returned(Top)
            /\ stack' = <<>>
       ELSE /\ stack' = [SubSeq(stack, 1, Len(stack) - 1)
                            EXCEPT ![Len(stack) - 1].dependencies =
                                       @ \o Returned(Top),
                                   ![Len(stack) - 1].todo = Tail(@)]
            /\ UNCHANGED <<pc, result>>
    /\ UNCHANGED <<Records, self, method, exportvars>>

\* ------------------------------------------------------------- export
\* The project of the running turn of the loop.
project == projects[k]

Exporting(st) ==
    pc = "running" /\ method = "export" /\ k <= Len(projects) /\ step = st

Done(st) == log' = Append(log, <<project, st>>)

\* The export button is pressed on the selected projects.
Export ==
    /\ pc = "idle"
    /\ pc' = "running"
    /\ method' = "export"
    /\ k' = 1 /\ step' = "render"
    /\ UNCHANGED <<Records, self, result, stack>>
    /\ UNCHANGED <<exported_date, exported_msg, projects, output, err,
                   expored_msg, message, now, tj3, console, log>>

\* The four templates are rendered.
Render ==
    /\ Exporting("render")
    /\ step' = "write" /\ Done("render")
    /\ UNCHANGED <<Records, walkvars>>
    /\ UNCHANGED <<exported_date, exported_msg, projects, k, output, err,
                   expored_msg, message, now, tj3, console>>

\* The four fragments are written to a temporary file.
WriteTjp ==
    /\ Exporting("write")
    /\ step' = "call" /\ Done("write")
    /\ UNCHANGED <<Records, walkvars>>
    /\ UNCHANGED <<exported_date, exported_msg, projects, k, output, err,
                   expored_msg, message, now, tj3, console>>

\* command(cmd): tj3 runs with its stdout on a pipe and its stderr left on
\* the server's; communicate() returns what it wrote to stdout and None.
\* The exit status is not read.
command(out, errtext, status) ==
    /\ output' = out
    /\ err' = NoText
    /\ console' = IF errtext = "" THEN console ELSE Append(console, errtext)
    /\ now' = now + 1
    /\ tj3' = [tj3 EXCEPT ![project] =
                  [ran |-> TRUE, stdout |-> out, stderr |-> errtext,
                   status |-> status, at |-> now + 1]]

Call ==
    /\ Exporting("call")
    /\ \E out \in Stdout, errtext \in Stderr, status \in {0, 1} :
          command(out, errtext, status)
    /\ step' = "store" /\ Done("call")
    /\ UNCHANGED <<Records, walkvars>>
    /\ UNCHANGED <<exported_date, exported_msg, projects, k, expored_msg,
                   message>>

\* project.save(): the fields of the record that were assigned are written.
\* `expored_msg` is no field of the model, so the text stays on the instance.
save(date, text) ==
    /\ exported_date' = [exported_date EXCEPT ![project] = date]
    /\ expored_msg' = text
    /\ UNCHANGED exported_msg

Store ==
    /\ Exporting("store")
    /\ save(now, output)
    /\ k' = k + 1 /\ step' = "render" /\ Done("store")
    /\ UNCHANGED <<Records, walkvars>>
    /\ UNCHANGED <<projects, output, err, message, now, tj3, console>>

\* A mutant of Raise: the failure is swallowed and the loop goes on with the
\* next project.
Raise_continue ==
    /\ \E st \in Range(Steps) : Exporting(st)
    /\ k' = k + 1 /\ step' = "render"
    /\ UNCHANGED <<Records, walkvars>>
    /\ UNCHANGED <<exported_date, exported_msg, projects, output, err,
                   expored_msg, message, now, tj3, console, log>>

\* The step to do raises (a template that fails to render, a file that
\* cannot be written, tj3 that cannot be started, a save that is refused):
\* nothing in export catches it, and the call ends there.
Raise ==
    /\ \E st \in Range(Steps) : Exporting(st)
    /\ pc' = "raised"
    /\ UNCHANGED <<Records, method, self, result, stack, exportvars>>

\* The loop is over: export returns (None).
Finish ==
    /\ pc = "running" /\ method = "export" /\ k > Len(projects)
    /\ pc' = "returned"
    /\ UNCHANGED <<Records, method, self, result, stack, exportvars>>

NextExport ==
    Export \/ Render \/ WriteTjp \/ Call \/ Store \/ Raise \/ Finish
SpecExport == InitExport /\ [][NextExport]_vars

NextCalc == CalcRemainHours
SpecCalc == InitCalc /\ [][NextCalc]_vars

NextRes == GetResources
SpecRes == InitRes /\ [][NextRes]_vars

Walk == Descend \/ RecursionError \/ Return

NextDeps == GetDependencies \/ Walk
SpecDeps == InitDeps /\ [][NextDeps]_vars

\* Either method, on works linked in any way or on a work whose children
\* are all the other works, all opened or one of them done.
InitChildren ==
    /\ self \in Works
    /\ predecessors \in Graphs(MaxTaskEdges) \cup {Diamond}
    /\ parent = [w \in Works |-> IF w = self THEN None ELSE self]
    /\ \E d \in Works :
          state = OnlySelf(d, IF d = self THEN "opened" ELSE "done", "opened")
    /\ effort = Unset /\ hours = Unset /\ tracker = Unset
    /\ trackers = NoTrackers
    /\ Idle

InitWalk == InitDeps \/ InitChildren
NextWalk == GetDependencies \/ GetTasks \/ Walk
\* The interpreter runs a started call on until it returns or raises.
FairSpecWalk == InitWalk /\ [][NextWalk]_vars /\ WF_vars(Walk)

NextTasks == GetTasks \/ Walk
SpecTasks == InitTasks /\ [][NextTasks]_vars

\* ------------------------------------------------------------- claims
Called(m) == pc = "returned" /\ method = m

\* The number of times x occurs in the list s.
Count(s, x) == Cardinality({i \in 1..Len(s) : s[i] = x})

NoDuplicates(s) == \A i, j \in 1..Len(s) : s[i] = s[j] => i = j

\* The works reachable from w by one or more predecessor links.
RECURSIVE Closure(_)
Closure(S) ==
    LET more == S \cup UNION {predecessors[x] : x \in S}
    IN IF more = S THEN S ELSE Closure(more)

TransitivePredecessors(w) == Closure(predecessors[w])

\* A cycle of predecessor links can be reached from w.
CycleReachable(w) ==
    \E x \in {w} \cup TransitivePredecessors(w) :
        x \in TransitivePredecessors(x)

\* The hours of the claims: the field, with its default when it is unset.
EffortOr(w, zero) ==
    IF effort[w] = None THEN 4 ELSE IF effort[w] = 0 THEN zero ELSE effort[w]

HoursOf(w) == IF hours[w] = None THEN 0 ELSE hours[w]

RemainAsSpecified(e, h) ==
    /\ state[self] = "done" => result = 0
    /\ (e > h /\ state[self] # "done") => result = e - h
    /\ (e <= h /\ state[self] = "opened") => result = 4 + (h - e)

\* C3 as stated: calc_remain_hours returns effort - hours when effort > hours
\* and the state is not done, 4 + (hours - effort) when effort <= hours and
\* the state is opened, and 0 when the state is done; only an unset effort
\* is taken as 4 (an effort of 0 stays 0) and unset hours as 0.
C3_AsStated ==
    Called("calc_remain_hours")
        => RemainAsSpecified(EffortOr(self, 0), HoursOf(self))

\* C3 amended: the same three cases, with an effort that is unset or 0 taken
\* as 4 and unset hours as 0; effort=8, hours=3 gives 5, effort=8, hours=8,
\* opened gives 4 and effort=8, hours=10, opened gives 6.
C3_RemainHours ==
    Called("calc_remain_hours")
        => /\ RemainAsSpecified(EffortOr(self, 4), HoursOf(self))
           /\ (effort[self] = 8 /\ hours[self] = 3 /\ state[self] # "done")
                  => result = 5
           /\ (effort[self] = 8 /\ hours[self] = 8 /\ state[self] = "opened")
                  => result = 4
           /\ (effort[self] = 8 /\ hours[self] = 10 /\ state[self] = "opened")
                  => result = 6

\* calc_remain_hours has run on an opened work with no effort (0) and two
\* hours logged.
C3_Witness ==
    /\ Called("calc_remain_hours")
    /\ effort[self] = 0 /\ hours[self] = 2 /\ state[self] = "opened"
    /\ result = 2

\* C10 as stated: calc_remain_hours never returns a negative value whatever
\* the state, and a positive one when the state is opened.
C10_AsStated ==
    Called("calc_remain_hours")
        => result >= 0 /\ (state[self] = "opened" => result > 0)

\* C10 amended: calc_remain_hours returns no negative value when the state
\* is opened or done, and a positive one when the state is opened; in any
\* other state it returns effort - hours, negative when hours exceed effort.
C10_NonNegative ==
    Called("calc_remain_hours")
        => /\ state[self] \in {"opened", "done"} => result >= 0
           /\ state[self] = "opened" => result > 0
           /\ state[self] \notin {"opened", "done"}
                  => result = EffortOr(self, 4) - HoursOf(self)

\* calc_remain_hours has run on a done work with more hours than effort.
C10_Witness ==
    /\ Called("calc_remain_hours")
    /\ state[self] = "done"
    /\ effort[self] # None /\ hours[self] # None /\ hours[self] > effort[self]
    /\ result = 0

\* C7: get_resources returns exactly the ids of the employees whose trackers
\* include the work's tracker, each once, and none when the work has no
\* tracker.
C7_Resources ==
    Called("get_resources")
        => /\ Range(result) = {e \in Employees : tracker[self] \in trackers[e]}
           /\ NoDuplicates(result)
           /\ tracker[self] = None => result = <<>>

\* get_resources has run with an employee it returns and one it leaves out,
\* who has another tracker.
C7_Witness ==
    /\ Called("get_resources")
    /\ \E e, f \in Employees :
          /\ e \in Range(result)
          /\ f \notin Range(result) /\ trackers[f] # {}

\* C4: on an acyclic predecessor graph the works in get_dependencies(w) are
\* exactly those reachable from w by one or more predecessor links, and the
\* list is empty when w has no predecessors.
C4_Closure ==
    (Called("get_dependencies") /\ ~CycleReachable(self))
        => /\ Range(result) = TransitivePredecessors(self)
           /\ predecessors[self] = {} => result = <<>>

\* get_dependencies has returned a work that is no direct predecessor.
C4_Witness ==
    /\ Called("get_dependencies")
    /\ \E x \in Range(result) : x \notin predecessors[self]

\* C5 as stated: for the diamond, get_dependencies(A) holds B, C and D,
\* each exactly once.
C5_AsStated ==
    (Called("get_dependencies") /\ predecessors = Diamond /\ self = 1)
        => /\ Range(result) = {2, 3, 4}
           /\ \A x \in {2, 3, 4} : Count(result, x) = 1

\* C5 amended: for the diamond, get_dependencies(A) holds B, C and D and
\* nothing else, B and C once and D twice, once for each path to it.
C5_Diamond ==
    (Called("get_dependencies") /\ predecessors = Diamond /\ self = 1)
        => /\ Range(result) = {2, 3, 4}
           /\ Count(result, 2) = 1 /\ Count(result, 3) = 1
           /\ Count(result, 4) = 2

\* get_dependencies(A) has returned for the diamond.
C5_Witness ==
    Called("get_dependencies") /\ predecessors = Diamond /\ self = 1

\* The children of w that are opened.
OpenedChildren(w) == {t \in Works : parent[t] = w /\ state[t] = "opened"}

\* C6: get_tasks(w) returns, without duplicates, the opened children of w
\* and the works reachable from them by predecessor links, whatever the
\* state and parent of those, and no other work.
C6_Tasks ==
    Called("get_tasks")
        => /\ NoDuplicates(result)
           /\ Range(result) =
                  OpenedChildren(self)
                  \cup UNION {TransitivePredecessors(t) :
                                 t \in OpenedChildren(self)}

\* get_tasks has returned a done child, and left out another done child.
C6_Witness ==
    /\ Called("get_tasks")
    /\ \E t, u \in Works :
          /\ parent[t] = self /\ state[t] = "done" /\ t \in Range(result)
          /\ parent[u] = self /\ state[u] = "done" /\ u \notin Range(result)

\* The i-th step of an export that goes through: the steps of the first
\* project in order, then those of the second, and so on.
Expected(i) ==
    <<projects[((i - 1) \div Len(Steps)) + 1], Steps[((i - 1) % Len(Steps)) + 1]>>

InOrder ==
    /\ Len(log) <= Len(projects) * Len(Steps)
    /\ \A i \in 1..Len(log) : log[i] = Expected(i)

Untouched(p) ==
    /\ exported_date[p] = DateBefore[p]
    /\ exported_msg[p] = MsgBefore[p]

\* C8: export does the projects one at a time in list order, each as
\* render, write, call, store; when a step of the k-th project raises, the
\* call ends there: no later project is rendered, run or changed, the k-th
\* record is as it was, and the projects before it keep the date saved for
\* them.
C8_Abort ==
    method = "export"
        => /\ InOrder
           /\ pc = "raised"
                => /\ ~ENABLED NextExport
                   /\ \A j \in (k + 1)..Len(projects) :
                         /\ \A i \in 1..Len(log) : log[i][1] # projects[j]
                         /\ ~tj3[projects[j]].ran
                         /\ Untouched(projects[j])
                   /\ Untouched(project)
                   /\ \A j \in 1..(k - 1) :
                         /\ tj3[projects[j]].ran
                         /\ exported_date[projects[j]] = tj3[projects[j]].at

\* The save of the second of three projects has raised.
C8_Witness ==
    /\ method = "export" /\ pc = "raised"
    /\ Len(projects) = 3 /\ k = 2 /\ step = "store"
    /\ exported_date[projects[1]] # DateBefore[projects[1]]

\* C1 as stated: when export returns, each selected project is saved with
\* the text captured from its tj3 run as exported_msg and the time that run
\* completed as exported_date.
C1_Stored ==
    Called("export")
        => \A i \in 1..Len(projects) :
              /\ exported_msg[projects[i]] = tj3[projects[i]].stdout
              /\ exported_date[projects[i]] = tj3[projects[i]].at

\* C2 as stated: when export returns, what a tj3 run that exited non-zero
\* or wrote to stderr wrote there was captured by command() and has reached
\* the caller as a message or the project record.
C2_Surfaced ==
    Called("export")
        => \A i \in 1..Len(projects) :
              LET run == tj3[projects[i]]
              IN (run.status # 0 \/ run.stderr # "")
                    => \/ message = run.stderr
                       \/ exported_msg[projects[i]] = run.stderr

\* A cycle of predecessor links can be reached from where the running walk
\* starts: the work itself for get_dependencies, its opened children for
\* get_tasks.
WalkMeetsCycle ==
    IF method = "get_tasks"
    THEN \E t \in OpenedChildren(self) : CycleReachable(t)
    ELSE CycleReachable(self)

\* The chains of predecessor links that start at w, the empty one included:
\* a call of get_dependencies on w makes one call, itself included, for each
\* (defined when no cycle can be reached from w).
RECURSIVE Chains(_)
Chains(w) ==
    {<<w>>} \cup UNION {{<<w>> \o c : c \in Chains(p)} : p \in predecessors[w]}

\* The records the frame at depth i has not yet visited.  The record a frame
\* below the top is visiting is the business of the frame above it.
Waiting(i) ==
    Range(IF i < Len(stack) THEN Tail(stack[i].todo) ELSE stack[i].todo)

\* The calls still to be made: for each frame, one for each chain that
\* starts at a record it has not yet visited.
CallsLeft ==
    UNION {{<<i, c>> : c \in UNION {Chains(x) : x \in Waiting(i)}} :
              i \in 1..Len(stack)}

\* The steps the running walk has still to take: every frame's return, and a
\* call and a return for every call still to be made.
StepsLeft == Len(stack) + 2 * Cardinality(CallsLeft)

\* C9: a started get_dependencies (or get_tasks) returns if and only if no
\* cycle of predecessor links can be reached from its work (from its opened
\* children).  Without such a cycle the running walk always has a next step
\* and each step leaves one step less to do, so it ends, and it ends by
\* returning; with one it never returns (the stack grows until the
\* interpreter's limit cuts the walk off).
C9_Termination ==
    /\ [](pc = "running" => ENABLED Walk)
    /\ [][(pc = "running" /\ ~WalkMeetsCycle)
             => (StepsLeft' = StepsLeft - 1 /\ StepsLeft' >= 0)]_vars
    /\ [](pc = "returned" => ~WalkMeetsCycle)
    /\ [](pc = "raised" => WalkMeetsCycle)

\* get_dependencies has run into a cycle and the interpreter has cut it off.
C9_Witness ==
    /\ pc = "raised" /\ method = "get_dependencies"
    /\ CycleReachable(self)

====
